---- MODULE Spec2Model ----
(***************************************************************************)
(* Model of Code/prepare_data.py: the three-stage GEO preprocessing run.   *)
(*                                                                         *)
(* Text is modelled as TLA+ strings, one per Python str; a file is the     *)
(* list returned by readlines(), so every line keeps its "\n".  A table    *)
(* written by to_csv is modelled as the sequence of its records (header    *)
(* first), each record the sequence of its cell texts.                     *)
(***************************************************************************)
EXTENDS Integers, Sequences, FiniteSets, TLC

VARIABLES
    matrixFile,      \* Data/Raw/GSE103512_series_matrix.txt.gz
    annotFile,       \* Data/Raw/GPL13158.annot.gz
    out,             \* Data/Processed: raw_counts, probe_to_gene, metadata
    pc,              \* position of the script: the stage about to run
    error,           \* the exception that ended the run, "" when none
    written,         \* output files written by this run, in order
    runs,            \* number of invocations of the script so far
    pre,             \* Data/Processed as it was when this run started
    first,           \* outcome of the first run, once it has ended
    scan1,           \* table_start / table_end of stage 1
    tableLines,      \* table_lines of stage 1
    scan2,           \* start / end of stage 2
    tableSection,    \* lines[start:end] of stage 2
    geneCol,         \* gene_col
    entrezCol,       \* entrez_col
    sampleIds,       \* sample_ids
    sampleNormals    \* sample_normals

vars == <<matrixFile, annotFile, out, pc, error, written, runs, pre, first,
          scan1, tableLines, scan2, tableSection, geneCol, entrezCol,
          sampleIds, sampleNormals>>

locals == <<scan1, tableLines, scan2, tableSection, geneCol, entrezCol,
            sampleIds, sampleNormals>>

(***************************************************************************)
(* Bounds of the model.                                                    *)
(***************************************************************************)
MaxScanLines == 4      \* lines of a file whose marker placement is free
MaxBodyRows == 2       \* data rows of a table whose content is free
MaxSamples == 2        \* fields of a free !Sample_ header line
MaxRuns == 2           \* invocations of the script

(***************************************************************************)
(* Python values.                                                          *)
(***************************************************************************)
None == -1             \* table_start = None (indices are never negative)
NoneStr == "<None>"    \* gene_col = None
NaN == "<NaN>"         \* a missing value inside a DataFrame

Min(S) == CHOOSE x \in S : \A y \in S : x <= y
Max(S) == CHOOSE x \in S : \A y \in S : x >= y

Char(s, i) == SubSeq(s, i, i)

\* str.startswith
StartsWith(s, p) == Len(s) >= Len(p) /\ SubSeq(s, 1, Len(p)) = p

\* the `in` operator on two str
Contains(s, k) ==
    \E i \in 1..(Len(s) - Len(k) + 1) : SubSeq(s, i, i + Len(k) - 1) = k

\* the whitespace str.strip() removes, among the characters of the inputs
IsSpace(c) == c \in {" ", "\t", "\n", "\r"}

\* str.strip()
Strip(s) ==
    LET keep == {i \in 1..Len(s) : ~IsSpace(Char(s, i))}
    IN  IF keep = {} THEN "" ELSE SubSeq(s, Min(keep), Max(keep))

\* str.split(sep) for a one-character sep
RECURSIVE Split(_, _)
Split(s, sep) ==
    LET at == {i \in 1..Len(s) : Char(s, i) = sep}
    IN  IF at = {} THEN <<s>>
        ELSE <<SubSeq(s, 1, Min(at) - 1)>>
                 \o Split(SubSeq(s, Min(at) + 1, Len(s)), sep)

\* str.replace(c, '') for a one-character c
RECURSIVE Remove(_, _)
Remove(s, c) ==
    IF s = "" THEN ""
    ELSE (IF Char(s, 1) = c THEN "" ELSE Char(s, 1))
             \o Remove(SubSeq(s, 2, Len(s)), c)

Upper == <<"A", "B", "C", "D", "E", "F", "G", "H", "I", "J", "K", "L", "M",
           "N", "O", "P", "Q", "R", "S", "T", "U", "V", "W", "X", "Y", "Z">>
Lowered == <<"a", "b", "c", "d", "e", "f", "g", "h", "i", "j", "k", "l", "m",
             "n", "o", "p", "q", "r", "s", "t", "u", "v", "w", "x", "y", "z">>

LowerChar(c) ==
    IF \E k \in 1..26 : Upper[k] = c
    THEN Lowered[CHOOSE k \in 1..26 : Upper[k] = c]
    ELSE c

\* str.lower()
RECURSIVE Lower(_)
Lower(s) ==
    IF s = "" THEN ""
    ELSE LowerChar(Char(s, 1)) \o Lower(SubSeq(s, 2, Len(s)))

Range(f) == {f[k] : k \in DOMAIN f}

(***************************************************************************)
(* Files.  An input file is [exists, lines]; an output file is             *)
(* [exists, rows].                                                         *)
(***************************************************************************)
File(lines) == [exists |-> TRUE, lines |-> lines]
NoFile == [exists |-> FALSE, lines |-> <<>>]
NoOutput == [exists |-> FALSE, rows |-> <<>>]
StaleOutput == [exists |-> TRUE, rows |-> <<<<"stale">>>>]

\* faulty variant of WriteCsv: the file is opened in append mode
AppendCsv(old, table) == [exists |-> TRUE, rows |-> old.rows \o table]

\* DataFrame.to_csv(path, index=False): the file is replaced by the table
WriteCsv(old, table) == [exists |-> TRUE, rows |-> table]

(***************************************************************************)
(* Locating a table: the loops of lines 76-81 and 127-132.  Indices are    *)
(* Python's (0-based): the line at TLA+ position i has Python index i-1.   *)
(***************************************************************************)
RECURSIVE ScanFrom(_, _, _, _, _)
ScanFrom(lines, i, start, beginMark, endMark) ==
    IF i > Len(lines) THEN [start |-> start, end |-> None]
    ELSE IF StartsWith(lines[i], beginMark)
         THEN ScanFrom(lines, i + 1, i, beginMark, endMark)
    ELSE IF StartsWith(lines[i], endMark)
         THEN [start |-> start, end |-> i - 1]
    ELSE ScanFrom(lines, i + 1, start, beginMark, endMark)

ScanMarkers(lines, beginMark, endMark) ==
    ScanFrom(lines, 1, None, beginMark, endMark)

\* faulty variant of Slice: the span starts one line too late
SliceLate(lines, start, end) == SubSeq(lines, start + 2, end)

\* lines[start:end]
Slice(lines, start, end) == SubSeq(lines, start + 1, end)

NoScan == [start |-> None, end |-> None]
Located(scan) == scan.start # None /\ scan.end # None

(***************************************************************************)
(* pandas.read_csv(StringIO("".join(lines)), sep="\t"), for the inputs of  *)
(* this model: records of equal width, column names distinct and not       *)
(* empty, unsigned decimal numbers, a field quoted as a whole or not at    *)
(* all.  Blank lines are skipped, the first record is the header, the      *)
(* default missing-value texts become NaN, and unless dtype=str a column   *)
(* of numbers is parsed as int64 or float64.  A number is held as the text *)
(* to_csv writes for it.                                                   *)
(***************************************************************************)
Chomp(line) ==
    IF Len(line) > 0 /\ Char(line, Len(line)) = "\n"
    THEN SubSeq(line, 1, Len(line) - 1)
    ELSE line

Unquote(f) ==
    IF Len(f) >= 2 /\ Char(f, 1) = "\"" /\ Char(f, Len(f)) = "\""
    THEN SubSeq(f, 2, Len(f) - 1)
    ELSE f

IsBlank(line) == Chomp(line) = ""

Fields(line) ==
    LET raw == Split(Chomp(line), "\t")
    IN  [k \in 1..Len(raw) |-> Unquote(raw[k])]

Records(lines) ==
    LET kept == SelectSeq(lines, LAMBDA l : ~IsBlank(l))
    IN  [k \in 1..Len(kept) |-> Fields(kept[k])]

NAValues == {"", "#N/A", "#N/A N/A", "#NA", "-1.#IND", "-1.#QNAN", "-NaN",
             "-nan", "1.#IND", "1.#QNAN", "<NA>", "N/A", "NA", "NULL", "NaN",
             "n/a", "nan", "null"}

Digits == {"0", "1", "2", "3", "4", "5", "6", "7", "8", "9"}

IsDigits(s) == s # "" /\ \A i \in 1..Len(s) : Char(s, i) \in Digits

IsIntText(s) == IsDigits(s)

IsFloatText(s) ==
    \E k \in 2..(Len(s) - 1) :
        /\ Char(s, k) = "."
        /\ IsDigits(SubSeq(s, 1, k - 1))
        /\ IsDigits(SubSeq(s, k + 1, Len(s)))

\* str(int(s))
IntRepr(s) ==
    LET nz == {i \in 1..Len(s) : Char(s, i) # "0"}
    IN  IF nz = {} THEN "0" ELSE SubSeq(s, Min(nz), Len(s))

\* repr(float(s)) for digits "." digits
FloatRepr(s) ==
    LET k == CHOOSE i \in 1..Len(s) : Char(s, i) = "."
        frac == SubSeq(s, k + 1, Len(s))
        nz == {i \in 1..Len(frac) : Char(frac, i) # "0"}
    IN  IntRepr(SubSeq(s, 1, k - 1)) \o "."
            \o (IF nz = {} THEN "0" ELSE SubSeq(frac, 1, Max(nz)))

Column(rows, c) == {rows[r][c] : r \in DOMAIN rows}

DType(cells) ==
    IF cells = {} THEN "object"
    ELSE IF \A v \in cells : IsIntText(v) THEN "int64"
    ELSE IF \A v \in cells : IsIntText(v) \/ IsFloatText(v) \/ v \in NAValues
         THEN "float64"
    ELSE "object"

ParseCell(v, dtype) ==
    IF v \in NAValues THEN NaN
    ELSE IF dtype = "int64" THEN IntRepr(v)
    ELSE IF dtype = "float64"
         THEN (IF IsIntText(v) THEN IntRepr(v) \o ".0" ELSE FloatRepr(v))
    ELSE v

Failed(e) == [error |-> e, columns |-> <<>>, rows |-> <<>>]

ReadCsv(lines, asStr) ==
    LET recs == Records(lines)
        body == Tail(recs)
        dtype(c) == IF asStr THEN "object" ELSE DType(Column(body, c))
    IN  IF recs = <<>> THEN Failed("EmptyDataError")
        ELSE [error |-> "",
              columns |-> Head(recs),
              rows |-> [r \in 1..Len(body) |->
                           [c \in 1..Len(body[r]) |->
                               ParseCell(body[r][c], dtype(c))]]]

\* the text to_csv writes for the records of a DataFrame
ToCsv(columns, rows) ==
    <<columns>> \o
        [r \in 1..Len(rows) |->
            [c \in 1..Len(rows[r]) |->
                IF rows[r][c] = NaN THEN "" ELSE rows[r][c]]]

(***************************************************************************)
(* Stage 1: the expression matrix (lines 57-101).                          *)
(***************************************************************************)
MatrixBegin == "!series_matrix_table_begin"
MatrixEnd == "!series_matrix_table_end"

\* faulty variant of Rename: the first column is renamed, whatever its name
RenameFirst(columns) ==
    [k \in 1..Len(columns) |-> IF k = 1 THEN "ProbeID" ELSE columns[k]]

\* expr_df.rename(columns={"ID_REF": "ProbeID"})
Rename(columns) ==
    [k \in 1..Len(columns) |->
        IF columns[k] = "ID_REF" THEN "ProbeID" ELSE columns[k]]

Stage1Result(e, scan, span, table) ==
    [error |-> e, scan |-> scan, tableLines |-> span, table |-> table]

\* lines 89-101: decode the span, rename, write
MatrixSave(scan, span, df) ==
    IF df.error # "" THEN Stage1Result(df.error, scan, span, <<>>)
    ELSE Stage1Result("", scan, span, ToCsv(Rename(df.columns), df.rows))

\* lines 83-87: both markers, or the stage raises
MatrixLocate(lines, scan) ==
    IF ~Located(scan)
    THEN Stage1Result("ValueError: table not located", scan, <<>>, <<>>)
    ELSE MatrixSave(scan, Slice(lines, scan.start, scan.end),
                    ReadCsv(Slice(lines, scan.start, scan.end), FALSE))

MatrixExtractor(file) ==
    IF ~file.exists
    THEN Stage1Result("FileNotFoundError", NoScan, <<>>, <<>>)
    ELSE MatrixLocate(file.lines,
                      ScanMarkers(file.lines, MatrixBegin, MatrixEnd))

(***************************************************************************)
(* Stage 2: the probe annotation (lines 109-176).                          *)
(***************************************************************************)
PlatformBegin == "!platform_table_begin"
PlatformEnd == "!platform_table_end"

gene_cols == <<"Gene symbol", "gene_symbol", "GENE_SYMBOL", "Gene.symbol",
               "Symbol">>
entrez_cols == <<"Gene ID", "ENTREZ_GENE_ID", "Entrez Gene", "EntrezID">>

\* for col in aliases: if col in columns: found = col; break
RECURSIVE FirstAliasFrom(_, _, _)
FirstAliasFrom(aliases, k, columns) ==
    IF k > Len(aliases) THEN NoneStr
    ELSE IF aliases[k] \in Range(columns) THEN aliases[k]
    ELSE FirstAliasFrom(aliases, k + 1, columns)

\* faulty variant of FirstAlias: the first column of the table that is an
\* alias wins, not the first alias of the list
FirstColumnAlias(aliases, columns) ==
    LET hits == {k \in 1..Len(columns) : columns[k] \in Range(aliases)}
    IN  IF hits = {} THEN NoneStr ELSE columns[Min(hits)]

FirstAlias(aliases, columns) == FirstAliasFrom(aliases, 1, columns)

RECURSIVE Ascending(_)
Ascending(S) ==
    IF S = {} THEN <<>> ELSE <<Min(S)>> \o Ascending(S \ {Min(S)})

\* positions of the columns df[[labels]] returns, in order
RECURSIVE Positions(_, _)
Positions(labels, columns) ==
    IF labels = <<>> THEN <<>>
    ELSE Ascending({k \in 1..Len(columns) : columns[k] = Head(labels)})
             \o Positions(Tail(labels), columns)

FinalColumns == <<"ProbeID", "Gene Symbol", "ENTREZ_GENE_ID">>

Stage2Result(e, scan, span, gene, entrez, table) ==
    [error |-> e, scan |-> scan, tableSection |-> span, gene_col |-> gene,
     entrez_col |-> entrez, table |-> table]

Stage2Failed(e, scan, span) ==
    Stage2Result(e, scan, span, NoneStr, NoneStr, <<>>)

\* lines 170-176: annot_df[["ID", gene_col, entrez_col]], rename, write
AnnotSave(scan, span, gene, entrez, columns, rows) ==
    LET picked == Positions(<<"ID", gene, entrez>>, columns)
    IN  IF "ID" \notin Range(columns)
        THEN Stage2Result("KeyError: ID", scan, span, gene, entrez, <<>>)
        ELSE IF Len(picked) # Len(FinalColumns)
        THEN Stage2Result("ValueError: length mismatch", scan, span, gene,
                          entrez, <<>>)
        ELSE Stage2Result("", scan, span, gene, entrez,
                 ToCsv(FinalColumns,
                       [r \in 1..Len(rows) |->
                           [c \in 1..Len(picked) |-> rows[r][picked[c]]]]))

\* faulty variant of WithPlaceholder: the column is filled with NaN
WithMissing(rows) == [r \in 1..Len(rows) |-> Append(rows[r], NaN)]

\* annot_df["ENTREZ_GENE_ID"] = "NA"
WithPlaceholder(rows) == [r \in 1..Len(rows) |-> Append(rows[r], "NA")]

\* lines 157-168: the Entrez column, or the placeholder column
AnnotEntrez(scan, span, gene, columns, rows) ==
    LET found == FirstAlias(entrez_cols, columns)
    IN  IF found = NoneStr
        THEN AnnotSave(scan, span, gene, "ENTREZ_GENE_ID",
                       Append(columns, "ENTREZ_GENE_ID"),
                       WithPlaceholder(rows))
        ELSE AnnotSave(scan, span, gene, found, columns, rows)

\* lines 146-155: the gene symbol column, or the stage raises
AnnotGene(scan, span, columns, rows) ==
    LET gene == FirstAlias(gene_cols, columns)
    IN  IF gene = NoneStr
        THEN Stage2Failed("ValueError: no gene symbol column", scan, span)
        ELSE AnnotEntrez(scan, span, gene, columns, rows)

\* annot_df.columns.str.strip()
StripAll(columns) == [k \in 1..Len(columns) |-> Strip(columns[k])]

\* lines 141-144
AnnotDecode(scan, span, df) ==
    IF df.error # "" THEN Stage2Failed(df.error, scan, span)
    ELSE AnnotGene(scan, span, StripAll(df.columns), df.rows)

\* lines 134-138
AnnotLocate(lines, scan) ==
    IF ~Located(scan)
    THEN Stage2Failed("ValueError: platform table not found", scan, <<>>)
    ELSE AnnotDecode(scan, Slice(lines, scan.start, scan.end),
                     ReadCsv(Slice(lines, scan.start, scan.end), TRUE))

AnnotationExtractor(file) ==
    IF ~file.exists THEN Stage2Failed("FileNotFoundError", NoScan, <<>>)
    ELSE AnnotLocate(file.lines,
                     ScanMarkers(file.lines, PlatformBegin, PlatformEnd))

(***************************************************************************)
(* Stage 3: the sample metadata (lines 189-228).                           *)
(***************************************************************************)
AccessionKey == "!Sample_geo_accession"
CharacteristicsKey == "!Sample_characteristics_ch1"

\* the first line with the prefix, as a one-element list; none: empty list
FirstWith(lines, prefix) ==
    LET at == {i \in 1..Len(lines) : StartsWith(lines[i], prefix)}
    IN  IF at = {} THEN <<>> ELSE <<lines[Min(at)]>>

\* line.strip().split("\t")[1:]
Parts(line) == Tail(Split(Strip(line), "\t"))

\* faulty variant of Classify: the two tests in the other order
ClassifyTumorFirst(entry) ==
    LET e == Lower(Strip(Remove(entry, "\"")))
    IN  IF Contains(e, "normal: no") THEN "Tumor"
        ELSE IF Contains(e, "normal: yes") THEN "Normal"
        ELSE "Unknown"

\* lines 211-217
Classify(entry) ==
    LET e == Lower(Strip(Remove(entry, "\"")))
    IN  IF Contains(e, "normal: yes") THEN "Normal"
        ELSE IF Contains(e, "normal: no") THEN "Tumor"
        ELSE "Unknown"

SampleIds(lines) ==
    LET hit == FirstWith(lines, AccessionKey)
    IN  IF hit = <<>> THEN <<>> ELSE Parts(hit[1])

SampleNormals(lines) ==
    LET hit == FirstWith(lines, CharacteristicsKey)
        parts == Parts(hit[1])
    IN  IF hit = <<>> THEN <<>>
        ELSE [k \in 1..Len(parts) |-> Classify(parts[k])]

\* faulty variant of MetadataFrame: the two lists are zipped, the longer
\* one cut to the length of the shorter
MetadataFrameZip(ids, normals) ==
    [error |-> "",
     columns |-> <<"SampleID", "SampleType">>,
     rows |-> [k \in 1..Min({Len(ids), Len(normals)}) |->
                  <<ids[k], normals[k]>>]]

\* pd.DataFrame({"SampleID": ids, "SampleType": normals}): the columns of
\* a DataFrame built from lists have one length, or the constructor raises
MetadataFrame(ids, normals) ==
    IF Len(ids) # Len(normals)
    THEN Failed("ValueError: All arrays must be of the same length")
    ELSE [error |-> "",
          columns |-> <<"SampleID", "SampleType">>,
          rows |-> [k \in 1..Len(ids) |-> <<ids[k], normals[k]>>]]

Stage3Result(e, ids, normals, table) ==
    [error |-> e, sample_ids |-> ids, sample_normals |-> normals,
     table |-> table]

\* lines 226-228
MetadataSave(ids, normals, df) ==
    IF df.error # "" THEN Stage3Result(df.error, ids, normals, <<>>)
    ELSE Stage3Result("", ids, normals, ToCsv(df.columns, df.rows))

MetadataBuild(ids, normals) ==
    MetadataSave(ids, normals, MetadataFrame(ids, normals))

MetadataExtractor(file) ==
    MetadataBuild(SampleIds(file.lines), SampleNormals(file.lines))

(***************************************************************************)
(* The inputs of the model.  Every line ends with "\n".                    *)
(***************************************************************************)
RECURSIVE SeqsUpTo(_, _)
SeqsUpTo(S, n) ==
    IF n = 0 THEN {<<>>}
    ELSE LET shorter == SeqsUpTo(S, n - 1)
         IN  shorter \cup {Append(q, x) : q \in shorter, x \in S}

RECURSIVE Flat(_)
Flat(fields) ==
    IF fields = <<>> THEN "" ELSE "\t" \o Head(fields) \o Flat(Tail(fields))

Line(key, fields) == key \o Flat(fields) \o "\n"

BeginLine == Line(MatrixBegin, <<>>)
EndLine == Line(MatrixEnd, <<>>)
PlatformBeginLine == Line(PlatformBegin, <<>>)
PlatformEndLine == Line(PlatformEnd, <<>>)

MatrixHeaders ==
    {Line("ID_REF", <<"GSM1", "GSM2">>),
     Line("\"ID_REF\"", <<"\"GSM1\"", "\"GSM2\"">>),
     Line("ID", <<"GSM1", "GSM2">>),
     Line("GSM1", <<"ID_REF", "GSM2">>)}

MatrixRows ==
    {Line("101", <<"5.2", "3.1">>),
     Line("1007_s_at", <<"5.20", "NA">>),
     Line("007", <<"12", "0.50">>)}

AnnotHeaders ==
    {Line("ID", <<"Gene symbol", "Gene ID", "GO">>),
     Line("ID", <<"Symbol", "Gene symbol", "Gene ID">>),
     Line("EntrezID", <<"ID", "GENE_SYMBOL", "ENTREZ_GENE_ID">>),
     Line("ID", <<" Gene.symbol ", "GO", "Chr">>),
     Line("ID", <<"gene_symbol", "Symbol", "GO">>),
     Line("ID", <<"GO", "Chr", "Title">>),
     Line("Probe", <<"Symbol", "GO", "Chr">>),
     Line("ID", <<"Symbol ", "Symbol", "GO">>)}

AnnotRows ==
    {Line("1007_s_at", <<"DDR1", "780", "kinase">>),
     Line("0042", <<"NA", "", "x">>),
     Line("117_at", <<"HSPA6", "3310", "NA">>)}

BaseMeta ==
    <<Line(AccessionKey, <<"GSM1", "GSM2">>),
      Line(CharacteristicsKey, <<"\"normal: yes\"", "\"normal: no\"">>)>>

BaseTable ==
    <<BeginLine, Line("ID_REF", <<"GSM1", "GSM2">>),
      Line("101", <<"5.2", "3.1">>), EndLine>>

BaseMatrix == File(BaseMeta \o BaseTable)

BaseAnnot ==
    File(<<PlatformBeginLine, Line("ID", <<"Gene symbol", "Gene ID", "GO">>),
           Line("1007_s_at", <<"DDR1", "780", "kinase">>), PlatformEndLine>>)

\* marker placement free
MatrixScanVocab ==
    {BeginLine, Line(MatrixBegin, <<"1">>), EndLine,
     Line("ID_REF", <<"GSM1", "GSM2">>), Line("101", <<"5.2", "3.1">>)}

AnnotScanVocab ==
    {PlatformBeginLine, PlatformEndLine, Line(PlatformEnd, <<"1">>),
     Line("ID", <<"Symbol", "GO", "Chr">>),
     Line("1007_s_at", <<"DDR1", "kinase", "6">>)}

Ids == {"GSM1", ""}
Flags == {"normal: yes", ""}
Descriptors ==
    {"\"normal: yes\"", "\"Normal: No\"", "tissue: colon; NORMAL: YES",
     "normal: no; normal: yes", "nor\"mal: no", "normal:yes",
     "something else ", ""}

Headed(key, F) == {Line(key, f) : f \in SeqsUpTo(F, MaxSamples)}

MetaParts ==
    {a \o c : a \in {<<>>} \cup {<<l>> : l \in Headed(AccessionKey, Ids)},
              c \in {<<>>} \cup
                    {<<l>> : l \in Headed(CharacteristicsKey, Flags)}}
    \cup {<<BaseMeta[1], l>> : l \in Headed(CharacteristicsKey, Descriptors)}
    \cup {BaseMeta \o <<Line(AccessionKey, <<"GSM9">>),
                        Line(CharacteristicsKey, <<"normal: no">>)>>,
          <<Line(AccessionKey \o "_2", <<"GSM9", "GSM8">>)>> \o BaseMeta}

Framed(b, headers, rows, e) ==
    {<<b, h>> \o r \o <<e>> : h \in headers, r \in SeqsUpTo(rows, MaxBodyRows)}

Inputs ==
    {[matrix |-> File(BaseMeta \o t), annot |-> BaseAnnot] :
        t \in SeqsUpTo(MatrixScanVocab, MaxScanLines)}
    \cup {[matrix |-> File(BaseMeta \o t), annot |-> BaseAnnot] :
        t \in Framed(BeginLine, MatrixHeaders, MatrixRows, EndLine)}
    \cup {[matrix |-> BaseMatrix, annot |-> File(t)] :
        t \in SeqsUpTo(AnnotScanVocab, MaxScanLines)}
    \cup {[matrix |-> BaseMatrix, annot |-> File(t)] :
        t \in Framed(PlatformBeginLine, AnnotHeaders, AnnotRows,
                     PlatformEndLine)}
    \cup {[matrix |-> File(m \o BaseTable), annot |-> BaseAnnot] :
        m \in MetaParts}
    \cup {[matrix |-> m, annot |-> a] :
        m \in {NoFile, BaseMatrix}, a \in {NoFile, BaseAnnot}}

OutputNames == <<"raw_counts.csv", "probe_to_gene.csv", "metadata.csv">>

Fresh == [raw_counts |-> NoOutput, probe_to_gene |-> NoOutput,
          metadata |-> NoOutput]
Stale == [raw_counts |-> StaleOutput, probe_to_gene |-> StaleOutput,
          metadata |-> StaleOutput]

NoFirst == [ended |-> FALSE, out |-> Fresh, pc |-> "", error |-> ""]

\* the outcome of the first run is kept once that run has ended
Ended(p, e, o) ==
    IF runs = 1 /\ p \in {"done", "aborted"}
    THEN [ended |-> TRUE, out |-> o, pc |-> p, error |-> e]
    ELSE first

(***************************************************************************)
(* The script.                                                             *)
(***************************************************************************)
Init ==
    /\ \E c \in Inputs : matrixFile = c.matrix /\ annotFile = c.annot
    /\ out \in {Fresh, Stale}
    /\ pre = out
    /\ pc = "matrix"
    /\ error = ""
    /\ written = <<>>
    /\ runs = 1
    /\ first = NoFirst
    /\ scan1 = NoScan /\ tableLines = <<>>
    /\ scan2 = NoScan /\ tableSection = <<>>
    /\ geneCol = NoneStr /\ entrezCol = NoneStr
    /\ sampleIds = <<>> /\ sampleNormals = <<>>

\* faulty variant of Raise: the stage has already opened its output file
\* for writing when it raises
RaiseTruncating(e) ==
    /\ pc' = "aborted"
    /\ error' = e
    /\ out' = [raw_counts |->
                  IF pc = "matrix" THEN WriteCsv(out.raw_counts, <<>>)
                  ELSE out.raw_counts,
               probe_to_gene |->
                  IF pc = "annotation" THEN WriteCsv(out.probe_to_gene, <<>>)
                  ELSE out.probe_to_gene,
               metadata |->
                  IF pc = "metadata" THEN WriteCsv(out.metadata, <<>>)
                  ELSE out.metadata]
    /\ first' = Ended("aborted", e, out')
    /\ UNCHANGED written

\* faulty variant of Raise: the error is reported and the script goes on
\* with the next stage
RaiseAndContinue(e) ==
    /\ pc' = (IF pc = "matrix" THEN "annotation"
              ELSE IF pc = "annotation" THEN "metadata" ELSE "aborted")
    /\ error' = e
    /\ first' = Ended("aborted", e, out)
    /\ UNCHANGED <<out, written>>

\* an uncaught exception ends the script: nothing after the raise runs
Raise(e) ==
    /\ pc' = "aborted"
    /\ error' = e
    /\ first' = Ended("aborted", e, out)
    /\ UNCHANGED <<out, written>>

Stage1 ==
    /\ pc = "matrix"
    /\ LET r == MatrixExtractor(matrixFile)
       IN  /\ scan1' = r.scan
           /\ tableLines' = r.tableLines
           /\ IF r.error # "" THEN Raise(r.error)
              ELSE /\ out' = [out EXCEPT
                                !.raw_counts = WriteCsv(@, r.table)]
                   /\ written' = Append(written, OutputNames[1])
                   /\ pc' = "annotation"
                   /\ UNCHANGED <<error, first>>
    /\ UNCHANGED <<matrixFile, annotFile, runs, pre, scan2, tableSection,
                   geneCol, entrezCol, sampleIds, sampleNormals>>

Stage2 ==
    /\ pc = "annotation"
    /\ LET r == AnnotationExtractor(annotFile)
       IN  /\ scan2' = r.scan
           /\ tableSection' = r.tableSection
           /\ geneCol' = r.gene_col
           /\ entrezCol' = r.entrez_col
           /\ IF r.error # "" THEN Raise(r.error)
              ELSE /\ out' = [out EXCEPT
                                !.probe_to_gene = WriteCsv(@, r.table)]
                   /\ written' = Append(written, OutputNames[2])
                   /\ pc' = "metadata"
                   /\ UNCHANGED <<error, first>>
    /\ UNCHANGED <<matrixFile, annotFile, runs, pre, scan1, tableLines,
                   sampleIds, sampleNormals>>

Stage3 ==
    /\ pc = "metadata"
    /\ LET r == MetadataExtractor(matrixFile)
       IN  /\ sampleIds' = r.sample_ids
           /\ sampleNormals' = r.sample_normals
           /\ IF r.error # "" THEN Raise(r.error)
              ELSE LET o == [out EXCEPT !.metadata = WriteCsv(@, r.table)]
                   IN  /\ out' = o
                       /\ written' = Append(written, OutputNames[3])
                       /\ pc' = "done"
                       /\ first' = Ended("done", "", o)
                       /\ UNCHANGED error
    /\ UNCHANGED <<matrixFile, annotFile, runs, pre, scan1, tableLines,
                   scan2, tableSection, geneCol, entrezCol>>

\* the operator invokes the script again on the same inputs
Rerun ==
    /\ pc \in {"done", "aborted"}
    /\ runs < MaxRuns
    /\ runs' = runs + 1
    /\ pre' = out
    /\ pc' = "matrix"
    /\ error' = ""
    /\ written' = <<>>
    /\ scan1' = NoScan /\ tableLines' = <<>>
    /\ scan2' = NoScan /\ tableSection' = <<>>
    /\ geneCol' = NoneStr /\ entrezCol' = NoneStr
    /\ sampleIds' = <<>> /\ sampleNormals' = <<>>
    /\ UNCHANGED <<matrixFile, annotFile, out, first>>

Next == Stage1 \/ Stage2 \/ Stage3 \/ Rerun

Spec == Init /\ [][Next]_vars

(***************************************************************************)
(* What the claims speak of.                                               *)
(***************************************************************************)
Stage1Ran == pc # "matrix"
Stage2Ran == pc \notin {"matrix", "annotation"} /\ Len(written) >= 1
Stage3Ran == pc \in {"done", "aborted"} /\ Len(written) >= 2

OutAt(o, k) ==
    CASE k = 1 -> o.raw_counts
      [] k = 2 -> o.probe_to_gene
      [] k = 3 -> o.metadata

\* the lines of a file that start with a marker
MarkerAt(file, mark) ==
    {i \in 1..Len(file.lines) : StartsWith(file.lines[i], mark)}

\* the lines strictly between positions i and j
Between(file, i, j) == [k \in 1..(j - i - 1) |-> file.lines[i + k]]

\* the column names of the table in a span, trimmed
HeaderNames(span) == StripAll(Records(span)[1])

Present(aliases, names) == {k \in 1..Len(aliases) : aliases[k] \in Range(names)}

\* C1: when a container holds exactly one begin-marker line, at i, and
\* exactly one end-marker line, at j, with i < j, the span the stage extracts
\* is exactly the lines strictly between i and j, in order (none when
\* j = i + 1); for the series matrix and for the platform table alike.
C1_SpanIsBetweenMarkers ==
    /\ \A i, j \in 1..Len(matrixFile.lines) :
          ( /\ Stage1Ran
            /\ MarkerAt(matrixFile, MatrixBegin) = {i}
            /\ MarkerAt(matrixFile, MatrixEnd) = {j}
            /\ i < j )
          => /\ Located(scan1)
             /\ tableLines = Between(matrixFile, i, j)
    /\ \A i, j \in 1..Len(annotFile.lines) :
          ( /\ Stage2Ran
            /\ MarkerAt(annotFile, PlatformBegin) = {i}
            /\ MarkerAt(annotFile, PlatformEnd) = {j}
            /\ i < j )
          => /\ Located(scan2)
             /\ tableSection = Between(annotFile, i, j)

C1_Witness ==
    /\ Stage2Ran
    /\ \E i, j \in 1..Len(matrixFile.lines) :
          /\ MarkerAt(matrixFile, MatrixBegin) = {i}
          /\ MarkerAt(matrixFile, MatrixEnd) = {j}
          /\ j = i + 3
          /\ Len(tableLines) = 2
    /\ \E i \in 1..Len(annotFile.lines) :
          /\ MarkerAt(annotFile, PlatformBegin) = {i}
          /\ MarkerAt(annotFile, PlatformEnd) = {i + 1}
          /\ tableSection = <<>>

\* the fatal conditions of a stage, read off its input
Stage1Fatal ==
    \/ ~matrixFile.exists
    \/ MarkerAt(matrixFile, MatrixBegin) = {}
    \/ MarkerAt(matrixFile, MatrixEnd) = {}

Stage2Fatal ==
    \/ ~annotFile.exists
    \/ MarkerAt(annotFile, PlatformBegin) = {}
    \/ MarkerAt(annotFile, PlatformEnd) = {}
    \/ /\ Records(tableSection) # <<>>
       /\ Present(gene_cols, HeaderNames(tableSection)) = {}

\* C2: a stage that meets a fatal condition (input file missing, begin or
\* end marker missing, for the annotation no gene-symbol alias) raises before
\* it writes: the run is aborted, the stage's output file is not among the
\* files written and is exactly as it was when the run started.
C2_NoPartialOutput ==
    /\ (Stage1Ran /\ Stage1Fatal)
          => /\ pc = "aborted" /\ error # ""
             /\ written = <<>>
             /\ out.raw_counts = pre.raw_counts
    /\ (Stage2Ran /\ Stage2Fatal)
          => /\ pc = "aborted" /\ error # ""
             /\ written = <<OutputNames[1]>>
             /\ out.probe_to_gene = pre.probe_to_gene

C2_Witness ==
    /\ Stage2Ran
    /\ annotFile.exists
    /\ Records(tableSection) # <<>>
    /\ Present(gene_cols, HeaderNames(tableSection)) = {}
    /\ pc = "aborted"
    /\ out.probe_to_gene = StaleOutput
    /\ out.raw_counts # pre.raw_counts

\* C3: the stages run in the order matrix, annotation, metadata; the files
\* written by a run are a prefix of raw_counts.csv, probe_to_gene.csv,
\* metadata.csv in that order; a run that aborts has written only the files
\* of the stages before the failing one, every later file is as it was when
\* the run started and no later stage has started; the run succeeds only
\* when all three files were written.
C3_OrderAndHalting ==
    /\ written = SubSeq(OutputNames, 1, Len(written))
    /\ pc = "matrix" => written = <<>>
    /\ pc = "annotation" => Len(written) = 1
    /\ pc = "metadata" => Len(written) = 2
    /\ pc = "done" => (Len(written) = 3 /\ error = "")
    /\ pc = "aborted"
          => /\ error # ""
             /\ Len(written) < 3
             /\ \A k \in (Len(written) + 1)..3 : OutAt(out, k) = OutAt(pre, k)
             /\ Len(written) = 0
                   => (scan2 = NoScan /\ tableSection = <<>> /\ geneCol = NoneStr)
             /\ Len(written) <= 1 => (sampleIds = <<>> /\ sampleNormals = <<>>)
    /\ \A k \in 1..Len(written) : OutAt(out, k).exists

C3_Witness ==
    /\ pc = "aborted"
    /\ written = <<OutputNames[1]>>
    /\ pre = Stale
    /\ out.raw_counts # StaleOutput
    /\ out.probe_to_gene = StaleOutput
    /\ out.metadata = StaleOutput

\* C4: whenever the annotation stage resolves its columns, the gene-symbol
\* column it selects is the alias earliest in gene_cols among those present
\* in the trimmed column names, whatever their order in the table; and when
\* an Entrez alias is present, the Entrez column selected is the alias
\* earliest in entrez_cols.
C4_AliasPriority ==
    (Stage2Ran /\ geneCol # NoneStr)
    => LET names == HeaderNames(tableSection)
       IN  /\ Present(gene_cols, names) # {}
           /\ geneCol = gene_cols[Min(Present(gene_cols, names))]
           /\ Present(entrez_cols, names) # {}
                 => entrezCol = entrez_cols[Min(Present(entrez_cols, names))]

\* position of a name in the trimmed header
At(names, n) == Min({k \in 1..Len(names) : names[k] = n})

C4_Witness ==
    /\ Stage2Ran
    /\ geneCol # NoneStr
    /\ LET names == HeaderNames(tableSection)
       IN  \E a, b \in Present(gene_cols, names) :
              /\ a < b
              /\ At(names, gene_cols[b]) < At(names, gene_cols[a])
              /\ geneCol = gene_cols[a]

\* the annotation table has a gene-symbol alias and no Entrez alias
FallbackCase ==
    /\ Stage2Ran
    /\ annotFile.exists
    /\ Located(scan2)
    /\ Records(tableSection) # <<>>
    /\ Present(gene_cols, HeaderNames(tableSection)) # {}
    /\ Present(entrez_cols, HeaderNames(tableSection)) = {}

\* the stage went through, with the placeholder in every row
FallbackOutput ==
    /\ pc # "aborted"
    /\ Len(written) >= 2
    /\ out.probe_to_gene.exists
    /\ out.probe_to_gene.rows[1] = FinalColumns
    /\ Len(out.probe_to_gene.rows) = Len(Records(tableSection))
    /\ \A r \in 2..Len(out.probe_to_gene.rows) :
          /\ Len(out.probe_to_gene.rows[r]) = 3
          /\ out.probe_to_gene.rows[r][3] = "NA"

Occurrences(names, n) == Cardinality({k \in 1..Len(names) : names[k] = n})

\* C5 as claimed: for every annotation table with a gene-symbol alias and
\* no Entrez alias the stage does not abort, and the output has the columns
\* ProbeID, Gene Symbol, ENTREZ_GENE_ID, one row per table row, with
\* ENTREZ_GENE_ID equal to "NA" in every row.
C5_AsClaimed == FallbackCase => FallbackOutput

\* C5, amended: the same, for every such table in which exactly one column
\* is named ID and exactly one column has the selected gene-symbol alias as
\* its trimmed name.
C5_EntrezFallback ==
    ( /\ FallbackCase
      /\ Occurrences(HeaderNames(tableSection), "ID") = 1
      /\ Occurrences(HeaderNames(tableSection), geneCol) = 1 )
    => /\ FallbackOutput
       /\ entrezCol = "ENTREZ_GENE_ID"

C5_Witness ==
    /\ FallbackCase
    /\ FallbackOutput
    /\ Len(out.probe_to_gene.rows) = 3
    /\ \E r \in 2..3 : out.probe_to_gene.rows[r][2] = ""
    /\ \E r \in 2..3 : out.probe_to_gene.rows[r][2] \notin {"", "NA"}

\* the descriptors the metadata stage classifies
DescriptorLine == FirstWith(matrixFile.lines, CharacteristicsKey)

Normalised(d) == Lower(Strip(Remove(d, "\"")))

\* C6: every descriptor gets exactly one label among Normal, Tumor and
\* Unknown; with s the descriptor without quote characters, trimmed and
\* lower-cased, the label is Normal iff s contains "normal: yes", Tumor iff s
\* contains "normal: no" and not "normal: yes", and Unknown otherwise.
C6_LabelClassification ==
    (Stage3Ran /\ DescriptorLine # <<>>)
    => LET ds == Parts(DescriptorLine[1])
       IN  /\ Len(sampleNormals) = Len(ds)
           /\ \A k \in 1..Len(ds) :
                 LET yes == Contains(Normalised(ds[k]), "normal: yes")
                     no == Contains(Normalised(ds[k]), "normal: no")
                 IN  /\ sampleNormals[k] \in {"Normal", "Tumor", "Unknown"}
                     /\ sampleNormals[k] = "Normal" <=> yes
                     /\ sampleNormals[k] = "Tumor" <=> (no /\ ~yes)
                     /\ sampleNormals[k] = "Unknown" <=> (~yes /\ ~no)

C6_Witness ==
    /\ Stage3Ran
    /\ DescriptorLine # <<>>
    /\ LET ds == Parts(DescriptorLine[1])
       IN  /\ Len(ds) = 2
           /\ Contains(Normalised(ds[1]), "normal: yes")
           /\ Contains(Normalised(ds[1]), "normal: no")
           /\ sampleNormals[1] = "Normal"
           /\ ds[2] # Normalised(ds[2])
           /\ sampleNormals[2] = "Tumor"

\* the tab-separated fields of a line after its first cell
FieldsAfterFirst(line) == Tail(Split(Chomp(line), "\t"))

\* C7: when the first !Sample_geo_accession line and the first
\* !Sample_characteristics_ch1 line both have n tab-separated fields after
\* the first cell, whatever the fields hold, metadata.csv gets exactly n
\* rows, row k pairing identifier field k with the label of descriptor
\* field k.
C7_PositionalAlignment ==
    ( /\ Stage3Ran
      /\ FirstWith(matrixFile.lines, AccessionKey) # <<>>
      /\ DescriptorLine # <<>>
      /\ Len(FieldsAfterFirst(FirstWith(matrixFile.lines, AccessionKey)[1]))
            = Len(FieldsAfterFirst(DescriptorLine[1])) )
    => LET ids == FieldsAfterFirst(
                      FirstWith(matrixFile.lines, AccessionKey)[1])
           ds == FieldsAfterFirst(DescriptorLine[1])
       IN  /\ pc = "done"
           /\ Len(out.metadata.rows) = Len(ids) + 1
           /\ \A k \in 1..Len(ids) :
                 out.metadata.rows[k + 1] = <<ids[k], Classify(ds[k])>>

\* the table stage 1 found, as decoded records: header, then rows
MatrixRecords == Records(tableLines)

Stage1Wrote == Len(written) >= 1 /\ MatrixRecords # <<>>

\* C8 as claimed: whatever the raw name of the first column, the header of
\* raw_counts.csv starts with ProbeID, and every other column name and every
\* value is that of the extracted table, in the same order.
C8_AsClaimed ==
    Stage1Wrote
    => /\ Len(out.raw_counts.rows) = Len(MatrixRecords)
       /\ out.raw_counts.rows[1][1] = "ProbeID"
       /\ \A c \in 2..Len(MatrixRecords[1]) :
             out.raw_counts.rows[1][c] = MatrixRecords[1][c]
       /\ \A r \in 2..Len(MatrixRecords) :
             out.raw_counts.rows[r] = MatrixRecords[r]

IsNumberText(v) == IsIntText(v) \/ IsFloatText(v)

AsFloat(v) == IF IsIntText(v) THEN IntRepr(v) \o ".0" ELSE FloatRepr(v)

\* C8, amended: the header of raw_counts.csv is the header of the extracted
\* table with every column named ID_REF renamed ProbeID (so the first column
\* is ProbeID only when its raw name is ID_REF or ProbeID) and every other
\* name unchanged, in the same order; the rows are those of the table, in
\* order; a missing-value text is written as the empty text, a value in a
\* column that holds some text that is no number is written unchanged, and a
\* value in a column of numbers is written as a text of the same number.
C8_HeaderRenaming ==
    Stage1Wrote
    => LET recs == MatrixRecords
           csv == out.raw_counts.rows
           textual(c) ==
               \E r \in 2..Len(recs) :
                   ~IsNumberText(recs[r][c]) /\ recs[r][c] \notin NAValues
       IN  /\ Len(csv) = Len(recs)
           /\ Len(csv[1]) = Len(recs[1])
           /\ \A c \in 1..Len(recs[1]) :
                 csv[1][c] = IF recs[1][c] = "ID_REF" THEN "ProbeID"
                             ELSE recs[1][c]
           /\ \A r \in 2..Len(recs) :
                 /\ Len(csv[r]) = Len(recs[r])
                 /\ \A c \in 1..Len(recs[r]) :
                       IF recs[r][c] \in NAValues THEN csv[r][c] = ""
                       ELSE IF textual(c) THEN csv[r][c] = recs[r][c]
                       ELSE /\ IsNumberText(csv[r][c])
                            /\ AsFloat(csv[r][c]) = AsFloat(recs[r][c])

C8_Witness ==
    /\ Stage1Wrote
    /\ Len(MatrixRecords) = 3
    /\ MatrixRecords[1][1] # "ID_REF"
    /\ out.raw_counts.rows[1][1] # "ProbeID"
    /\ out.raw_counts.rows[1][2] = "ProbeID"
    /\ \E r \in 2..3 : out.raw_counts.rows[r] # MatrixRecords[r]

\* C9: on unchanged inputs every later run ends as the first run ended, with
\* the same outcome (success, or the same error at the same stage) and the
\* same content in each of the three output files.
C9_RerunStable ==
    (runs >= 2 /\ pc \in {"done", "aborted"})
    => /\ first.ended
       /\ out = first.out
       /\ pc = first.pc
       /\ error = first.error

C9_Witness ==
    /\ runs = 2
    /\ pc = "done"
    /\ pre = out
    /\ first.out = out
    /\ Len(out.raw_counts.rows) = 3
    /\ Len(out.metadata.rows) = 3

\* C10 as claimed: when the identifier list and the label list have
\* different lengths, the metadata stage raises no error and still writes
\* metadata.csv.
C10_AsClaimed ==
    (Stage3Ran /\ Len(sampleIds) # Len(sampleNormals))
    => /\ pc = "done"
       /\ error = ""
       /\ Len(written) = 3
       /\ out.metadata.exists

\* C10, amended: the script itself does not compare the two lengths, but
\* building the table from lists of different lengths (one of them empty
\* because its line is absent, or not) raises: the run aborts at the
\* metadata stage and metadata.csv is left as it was; when the lengths are
\* equal the file is written with row k pairing identifier k and label k.
C10_LengthMismatchRaises ==
    Stage3Ran
    => IF Len(sampleIds) # Len(sampleNormals)
       THEN /\ pc = "aborted"
            /\ error # ""
            /\ written = SubSeq(OutputNames, 1, 2)
            /\ out.metadata = pre.metadata
       ELSE /\ pc = "done"
            /\ Len(out.metadata.rows) = Len(sampleIds) + 1
            /\ \A k \in 1..Len(sampleIds) :
                  out.metadata.rows[k + 1] = <<sampleIds[k], sampleNormals[k]>>

C10_Witness ==
    /\ Stage3Ran
    /\ DescriptorLine = <<>>
    /\ Len(sampleIds) = 2
    /\ sampleNormals = <<>>
    /\ pc = "aborted"
    /\ out.metadata = StaleOutput

====
